---------------------------- MODULE Spec2Model ----------------------------
(***************************************************************************)
(* A model of list_files.py: a directory walker (list_files, a generator   *)
(* over os.walk) and the formatters that consume it (files_to_yaml,        *)
(* files_to_markdown), with the module-level calls of the script.          *)
(*                                                                         *)
(* Strings are sequences of one-character strings, so that endswith,       *)
(* replace, os.path.join and the f-strings are computed character by       *)
(* character.  Standard output is the sequence of lines written so far.    *)
(***************************************************************************)
EXTENDS Integers, Sequences, FiniteSets

VARIABLES
    fs,        \* the directory tree on disk: path -> [kind, files, subs]
    program,   \* the calls still to be made by the caller, in order
    callIdx,   \* index in program of the call in progress (or next to start)
    pc,        \* "module" (between calls), "call" (inside one), "exit"
    tabs,      \* files_to_yaml's parameter tabs in the call in progress
    stack,     \* os.walk: directories still to be listed, top last
    root,      \* os.walk: the directory of the triple being consumed
    files,     \* list_files: the names of `files` not yet yielded
    stdout,    \* the lines written to standard output
    exitCode,  \* the process's exit code, meaningful once pc = "exit"
    log        \* history: per entry list_files yielded, the call, the entry,
               \* and where in stdout its lines went (first, count)

vars == <<fs, program, callIdx, pc, tabs, stack, root, files, stdout, exitCode, log>>

---------------------------------------------------------------------------
(* Bounds of the model *)

\* subdirectory entries (directories, unreadable directories, symlinks to
\* directories) in the whole tree, the root not counted
MaxDirs == 2
\* regular files in the whole tree
MaxFiles == 2
\* largest explicit value of tabs a caller passes
MaxTabs == 2

---------------------------------------------------------------------------
(* Literals of the source *)

\* "tips", the hard-coded root of the script
Tips == <<"t", "i", "p", "s">>
\* ".qmd"
QMD == <<".", "q", "m", "d">>
\* the default of tabs
TabsDefault == 5
\* "  ", the unit that is repeated tabs times
Unit == <<" ", " ">>
NL == "\n"
Sep == "/"
TextPrefix == <<"-", " ", "t", "e", "x", "t", ":", " ", "\"">>
TextSuffix == <<"\"">>
HrefPrefix == <<"h", "r", "e", "f", ":", " ">>
MdOpen == <<"-", " ", "[">>
MdMiddle == <<"]", "(">>
MdClose == <<")">>

---------------------------------------------------------------------------
(* String functions, as Python computes them *)

\* s.endswith(suffix)
EndsWith(s, suffix) ==
    /\ Len(s) >= Len(suffix)
    /\ SubSeq(s, Len(s) - Len(suffix) + 1, Len(s)) = suffix

\* s.replace(old, new): every non-overlapping occurrence of old, left to right
RECURSIVE Replace(_, _, _)
Replace(s, old, new) ==
    IF Len(s) < Len(old) THEN s
    ELSE IF SubSeq(s, 1, Len(old)) = old
         THEN new \o Replace(SubSeq(s, Len(old) + 1, Len(s)), old, new)
         ELSE <<Head(s)>> \o Replace(Tail(s), old, new)

\* unit * n (the empty string when n <= 0)
RECURSIVE Repeat(_, _)
Repeat(unit, n) == IF n <= 0 THEN <<>> ELSE unit \o Repeat(unit, n - 1)

\* os.path.join(a, b) on POSIX
PathJoin(a, b) ==
    IF b /= <<>> /\ Head(b) = Sep THEN b
    ELSE IF a = <<>> \/ a[Len(a)] = Sep THEN a \o b
    ELSE a \o <<Sep>> \o b

\* the lines print(s) writes: s split at its newlines
RECURSIVE Lines(_)
Lines(s) ==
    IF \E i \in 1..Len(s) : s[i] = NL
    THEN LET i == CHOOSE k \in 1..Len(s) : s[k] = NL /\ \A j \in 1..(k - 1) : s[j] /= NL
         IN  <<SubSeq(s, 1, i - 1)>> \o Lines(SubSeq(s, i + 1, Len(s)))
    ELSE <<s>>

---------------------------------------------------------------------------
(* The formatters *)

MatchesContains(x) ==
    \E i \in 1..(Len(x[2]) - Len(QMD) + 1) : SubSeq(x[2], i, i + Len(QMD) - 1) = QMD
\* the filter's lambda: x[1].endswith(".qmd")
Matches(x) == EndsWith(x[2], QMD)

\* file[1].replace(".qmd", "")
Label(file) == Replace(file[2], QMD, <<>>)

HrefOfLabel(file) == PathJoin(file[1], Replace(file[2], QMD, <<>>))
\* os.path.join(*file)
Href(file) == PathJoin(file[1], file[2])

IndentOneSpace(n) == Repeat(<<" ">>, n)
IndentGrows(n) == Repeat(Unit, n + callIdx - 1)
\* "  " * n
Indent(n) == Repeat(Unit, n)

\* the f-string of files_to_yaml
Formatted(file, t) ==
    Indent(t) \o TextPrefix \o Label(file) \o TextSuffix \o <<NL>>
        \o Indent(t + 1) \o HrefPrefix \o Href(file)

\* the f-string of files_to_markdown
MarkdownLine(file) ==
    MdOpen \o Label(file) \o MdMiddle \o Href(file) \o MdClose

\* the line of the plain listing: the joined path
PlainLine(file) == PathJoin(file[1], file[2])

\* tabs as bound by a call: the default when the caller omits it
TabsOf(args) == IF args = <<>> THEN TabsDefault ELSE args[1]

\* the plain listing has no suffix filter
PlainMatches(x) == TRUE

\* whether the operation prints for this entry
Prints(o, x) == IF o = "plain" THEN PlainMatches(x) ELSE Matches(x)

\* what the operation prints for this entry
Output(o, x, t) ==
    CASE o = "yaml" -> Formatted(x, t)
      [] o = "markdown" -> MarkdownLine(x)
      [] OTHER -> PlainLine(x)

---------------------------------------------------------------------------
(* The directory trees *)

DirNames == {<<"s">>, <<"t">>}
FileNames == {<<"a", ".", "q", "m", "d">>,
              <<"a", ".", "q", "m", "d", ".", "q", "m", "d">>,
              <<"b", ".", "q", "m", "d", "~">>}

RECURSIVE PathsBelow(_, _)
PathsBelow(p, d) ==
    IF d = 0 THEN {}
    ELSE UNION {{PathJoin(p, n)} \cup PathsBelow(PathJoin(p, n), d - 1) : n \in DirNames}

AllPaths == {Tips} \cup PathsBelow(Tips, MaxDirs)

Parent(p) == CHOOSE q \in AllPaths : \E n \in DirNames : PathJoin(q, n) = p

Shapes ==
    {S \in SUBSET PathsBelow(Tips, MaxDirs) :
        /\ Cardinality(S) <= MaxDirs
        /\ \A p \in S : Parent(p) \in S \cup {Tips}}

\* "dir": a directory that can be listed; "denied": a directory whose listing
\* fails; "link": a symbolic link to a directory
KindsOf(S) ==
    {K \in [S \cup {Tips} -> {"dir", "denied", "link"}] :
        /\ K[Tips] /= "link"
        /\ \A p \in S : K[Parent(p)] = "dir"}

FileSetsOf(S, K) ==
    {F \in SUBSET ({p \in S \cup {Tips} : K[p] /= "link"} \X FileNames) :
        Cardinality(F) <= MaxFiles}

TreeOf(S, K, F) ==
    [p \in S \cup {Tips} |->
        [kind |-> K[p],
         files |-> {n \in FileNames : <<p, n>> \in F},
         subs |-> {n \in DirNames : PathJoin(p, n) \in S}]]

\* the root does not exist
Missing == [p \in {} |-> 0]
\* the root is a regular file
NotADirectory == [p \in {Tips} |-> [kind |-> "file", files |-> {}, subs |-> {}]]

\* fs is one of the trees within the bounds
IsTree(t) ==
    \/ t \in {Missing, NotADirectory}
    \/ \E S \in Shapes : \E K \in KindsOf(S) : \E F \in FileSetsOf(S, K) : t = TreeOf(S, K, F)

---------------------------------------------------------------------------
(* os.walk *)

\* the orders in which a listing may return the names of S
Perms(S) ==
    {q \in [1..Cardinality(S) -> S] : \A i, j \in 1..Cardinality(S) : q[i] = q[j] => i = j}

Reverse(q) == [i \in 1..Len(q) |-> q[Len(q) + 1 - i]]

\* scandir(top) succeeds: top exists, is a directory and can be read
Listable(top) == top \in DOMAIN fs /\ fs[top].kind = "dir"

\* islink(new_path)
IsLink(p) == p \in DOMAIN fs /\ fs[p].kind = "link"

WalkErrorRaisesAlways == TRUE
\* os.walk is called without onerror: an error of scandir is ignored
WalkErrorRaises == FALSE

WalkDirsNone(top, dirs) == <<>>
\* the paths os.walk descends into: join(top, dirname) for each name of dirs
\* that is not a symbolic link (followlinks is not set)
WalkDirs(top, dirs) ==
    SelectSeq([i \in 1..Len(dirs) |-> PathJoin(top, dirs[i])], LAMBDA q : ~IsLink(q))

---------------------------------------------------------------------------
(* Standard output *)

printFirst(out, s) == Lines(s) \o out
\* print(s)
print(out, s) == out \o Lines(s)

---------------------------------------------------------------------------
(* The calls a caller makes *)

Call(op, args) == [op |-> op, directory |-> Tips, args |-> args]

ScriptMarkdownFirst == <<Call("markdown", <<>>), Call("yaml", <<>>)>>
\* lines 17 and 18 of the script
Script == <<Call("yaml", <<>>), Call("markdown", <<>>)>>

TabsArgs == {<<>>} \cup {<<t>> : t \in 0..MaxTabs}

Calls ==
    {Call("yaml", a) : a \in TabsArgs} \cup {Call("markdown", <<>>), Call("plain", <<>>)}

\* the calls that are made twice: files_to_yaml with tabs omitted and with
\* tabs given, and files_to_markdown
RepeatedCalls ==
    {Call("yaml", <<>>), Call("yaml", <<MaxTabs>>), Call("markdown", <<>>)}

InitWith(programs) ==
    /\ IsTree(fs)
    /\ program \in programs
    /\ callIdx = 1
    /\ pc = "module"
    /\ tabs = TabsDefault
    /\ stack = <<>>
    /\ root = <<>>
    /\ files = <<>>
    /\ stdout = <<>>
    /\ exitCode = 0
    /\ log = <<>>

\* the script is executed
Init == InitWith({Script})
\* a caller invokes one entry point
InitCall == InitWith({<<c>> : c \in Calls})
\* a caller invokes the same entry point twice, with the same arguments
InitTwice == InitWith({<<c, c>> : c \in RepeatedCalls})

op == program[callIdx].op
file == <<root, Head(files)>>

\* the caller starts its next call; os.walk starts from the directory given
ModuleCall ==
    /\ pc = "module"
    /\ callIdx <= Len(program)
    /\ pc' = "call"
    /\ tabs' = IF op = "yaml" THEN TabsOf(program[callIdx].args) ELSE tabs
    /\ stack' = <<program[callIdx].directory>>
    /\ root' = <<>>
    /\ files' = <<>>
    /\ UNCHANGED <<fs, program, callIdx, stdout, exitCode, log>>

\* for root, dirs, files in os.walk(directory): the inner loop is exhausted
\* and os.walk lists the next directory of its stack.  A listing that fails
\* is skipped.  The subdirectories are pushed here, reversed, so that they
\* are listed in the order of dirs once the files of this directory have
\* been yielded.
WalkNext ==
    /\ pc = "call"
    /\ files = <<>>
    /\ stack /= <<>>
    /\ LET top == stack[Len(stack)]
           rest == SubSeq(stack, 1, Len(stack) - 1)
       IN  IF ~Listable(top)
           THEN IF WalkErrorRaises
                THEN /\ pc' = "exit"
                     /\ exitCode' = 1
                     /\ UNCHANGED <<stack, root, files>>
                ELSE /\ stack' = rest
                     /\ UNCHANGED <<pc, exitCode, root, files>>
           ELSE \E nondirs \in Perms(fs[top].files), dirs \in Perms(fs[top].subs) :
                    /\ root' = top
                    /\ files' = nondirs
                    /\ stack' = rest \o Reverse(WalkDirs(top, dirs))
                    /\ UNCHANGED <<pc, exitCode>>
    /\ UNCHANGED <<fs, program, callIdx, tabs, stdout, log>>

\* list_files yields (root, file); the filter passes it or not; the formatter
\* prints its fragment
Yield ==
    /\ pc = "call"
    /\ files /= <<>>
    /\ files' = Tail(files)
    /\ stdout' = IF Prints(op, file) THEN print(stdout, Output(op, file, tabs)) ELSE stdout
    /\ log' = Append(log, [call |-> callIdx, entry |-> file,
                           first |-> Len(stdout) + 1,
                           count |-> Len(stdout') - Len(stdout)])
    /\ UNCHANGED <<fs, program, callIdx, pc, tabs, stack, root, exitCode>>

\* print raises because standard output cannot be written: nothing catches
\* it and the process ends with a traceback
StreamError ==
    /\ pc = "call"
    /\ files /= <<>>
    /\ Prints(op, file)
    /\ pc' = "exit"
    /\ exitCode' = 1
    /\ UNCHANGED <<fs, program, callIdx, tabs, stack, root, files, stdout, log>>

\* os.walk is exhausted: the call returns
Return ==
    /\ pc = "call"
    /\ files = <<>>
    /\ stack = <<>>
    /\ pc' = "module"
    /\ callIdx' = callIdx + 1
    /\ UNCHANGED <<fs, program, tabs, stack, root, files, stdout, exitCode, log>>

\* the caller has made its last call: the process ends successfully
Exit ==
    /\ pc = "module"
    /\ callIdx > Len(program)
    /\ pc' = "exit"
    /\ exitCode' = 0
    /\ UNCHANGED <<fs, program, callIdx, tabs, stack, root, files, stdout, log>>

Next == ModuleCall \/ WalkNext \/ Yield \/ StreamError \/ Return \/ Exit

Spec == Init /\ [][Next]_vars
CallSpec == InitCall /\ [][Next]_vars
TwiceSpec == InitTwice /\ [][Next]_vars
---------------------------------------------------------------------------
(* What the properties speak of *)

\* the process ended successfully
Succeeded == pc = "exit" /\ exitCode = 0

\* the events of call i, in order
EventsOf(i) == SelectSeq(log, LAMBDA e : e.call = i)

\* the entries list_files yielded in call i, in order
Yielded(i) == LET ev == EventsOf(i) IN [k \in 1..Len(ev) |-> ev[k].entry]

\* call i has consumed list_files to exhaustion
Exhausted(i) ==
    \/ i < callIdx
    \/ i = callIdx /\ pc = "call" /\ files = <<>> /\ stack = <<>>

\* the lines of stdout that event e wrote
LinesOf(e) == SubSeq(stdout, e.first, e.first + e.count - 1)

OpOf(e) == program[e.call].op
TabsIn(e) == IF program[e.call].args = <<>> THEN 5 ELSE program[e.call].args[1]

\* a file name with its trailing four characters removed
TrailingRemoved(name) == SubSeq(name, 1, Len(name) - 4)

\* directory, separator, file name
Joined(entry) == entry[1] \o <<"/">> \o entry[2]

\* the label in a line `<indent>- text: "<label>"` indented by t units
YamlLabel(line, t) == SubSeq(line, 2 * t + Len(TextPrefix) + 1, Len(line) - 1)

\* the label in a line `- [<label>](<href>)`
MarkdownLabel(line, href) == SubSeq(line, Len(MdOpen) + 1, Len(line) - Len(href) - 3)

\* the label event e printed
PrintedLabel(e) ==
    IF OpOf(e) = "yaml" THEN YamlLabel(LinesOf(e)[1], TabsIn(e))
    ELSE MarkdownLabel(LinesOf(e)[1], Href(e.entry))

Formats(e) == OpOf(e) \in {"yaml", "markdown"}

Range(q) == {q[i] : i \in 1..Len(q)}

\* the regular files located in the root or in any nested subdirectory
RegularFiles ==
    {x \in (DOMAIN fs) \X FileNames :
        fs[x[1]].kind \in {"dir", "denied"} /\ x[2] \in fs[x[1]].files}

\* the regular files of the directories that can be listed
ListedFiles == {x \in RegularFiles : fs[x[1]].kind = "dir"}

\* the root does not exist or is not a directory
RootAbsent == Tips \notin DOMAIN fs \/ fs[Tips].kind = "file"

---------------------------------------------------------------------------
(* C1 *)

\* C1: for every file name ending in .qmd, the label that files_to_yaml and
\* files_to_markdown print is the file name with exactly its trailing four
\* characters removed.
C1_LabelIsTrailingSuffixRemoved ==
    \A i \in 1..Len(log) :
        (Formats(log[i]) /\ log[i].count > 0)
            => PrintedLabel(log[i]) = TrailingRemoved(log[i].entry[2])

---------------------------------------------------------------------------
(* C2 *)

---------------------------------------------------------------------------
(* C3 *)

NoDuplicates(q) == \A i, j \in 1..Len(q) : q[i] = q[j] => i = j
NoDirectoryIn(q) == \A i \in 1..Len(q) : PathJoin(q[i][1], q[i][2]) \notin DOMAIN fs

---------------------------------------------------------------------------
(* C4 *)

\* the event that wrote line k of stdout
WriterOf(k) == {i \in 1..Len(log) : log[i].first <= k /\ k < log[i].first + log[i].count}

FragmentSize(e) == IF OpOf(e) = "yaml" THEN 2 ELSE 1

\* C4: in every state of a run of the script, every line written so far
\* belongs to the fragment of exactly one entry, whose file name ends with
\* .qmd; when the run has ended successfully, each entry whose name ends
\* with .qmd has produced exactly one fragment (two lines for YAML, one for
\* Markdown) and each other entry none.
C4_OnlyMatchingEntriesPrint ==
    /\ \A k \in 1..Len(stdout) :
            LET writers == WriterOf(k)
            IN  /\ Cardinality(writers) = 1
                /\ \A i \in writers : EndsWith(log[i].entry[2], QMD)
    /\ Succeeded =>
            \A i \in 1..Len(log) :
                log[i].count = IF EndsWith(log[i].entry[2], QMD) THEN FragmentSize(log[i]) ELSE 0

C4_Witness ==
    /\ Succeeded
    /\ \E i, j \in 1..Len(log) :
            /\ log[i].call = 2 /\ log[j].call = 2
            /\ log[i].count = 1
            /\ log[j].count = 0 /\ log[j].entry[2] = <<"b", ".", "q", "m", "d", "~">>

---------------------------------------------------------------------------
(* C5 *)

\* line is made of spaces only, then prefix, then rest
SpacesThen(line, prefix, rest) ==
    /\ EndsWith(line, prefix \o rest)
    /\ \A k \in 1..(Len(line) - Len(prefix) - Len(rest)) : line[k] = " "

\* C5: for every matching entry, the href printed by files_to_yaml
\* (`href: <href>`) and by files_to_markdown (`- [<label>](<href>)`) is the
\* directory joined with the full file name, suffix intact; and the two
\* operations print the same label for the same entry.
C5_HrefIsJoinedPath ==
    /\ \A i \in 1..Len(log) :
            log[i].count > 0 =>
                IF OpOf(log[i]) = "yaml"
                THEN SpacesThen(LinesOf(log[i])[2], HrefPrefix, Joined(log[i].entry))
                ELSE /\ EndsWith(LinesOf(log[i])[1], MdMiddle \o Joined(log[i].entry) \o MdClose)
                     /\ SubSeq(LinesOf(log[i])[1], 1, Len(MdOpen)) = MdOpen
    /\ \A i, j \in 1..Len(log) :
            (/\ log[i].count > 0 /\ log[j].count > 0
             /\ OpOf(log[i]) = "yaml" /\ OpOf(log[j]) = "markdown"
             /\ log[i].entry = log[j].entry)
                => YamlLabel(LinesOf(log[i])[1], TabsIn(log[i]))
                     = MarkdownLabel(LinesOf(log[j])[1], Joined(log[j].entry))

C5_Witness ==
    /\ Succeeded
    /\ \E i, j \in 1..Len(log) :
            /\ log[i].count = 2 /\ log[j].count = 1
            /\ log[i].entry = log[j].entry
            /\ log[i].entry[1] /= Tips

---------------------------------------------------------------------------
(* C6 *)

\* line is exactly n two-space units, then something that starts with prefix
IndentedBy(line, n, prefix) ==
    /\ Len(line) >= 2 * n + Len(prefix)
    /\ \A k \in 1..(2 * n) : line[k] = " "
    /\ SubSeq(line, 2 * n + 1, 2 * n + Len(prefix)) = prefix

\* C6: for every matching entry and every tabs >= 0 (5 when the caller omits
\* it), the first line of the YAML fragment is indented by exactly tabs
\* two-space units before `- text:` and the second by exactly tabs + 1 units
\* before `href:`.
C6_IndentationLaw ==
    \A i \in 1..Len(log) :
        (OpOf(log[i]) = "yaml" /\ log[i].count > 0) =>
            /\ log[i].count = 2
            /\ IndentedBy(LinesOf(log[i])[1], TabsIn(log[i]), <<"-", " ", "t", "e", "x", "t", ":">>)
            /\ IndentedBy(LinesOf(log[i])[2], TabsIn(log[i]) + 1, <<"h", "r", "e", "f", ":">>)

C6_Witness ==
    /\ Succeeded
    /\ program[1].op = "yaml" /\ program[1].args = <<0>>
    /\ \E i \in 1..Len(log) : log[i].count = 2

---------------------------------------------------------------------------
(* C7 *)

---------------------------------------------------------------------------
(* C8 *)

\* the root exists and no regular file is anywhere beneath it
NoRegularFile ==
    /\ Tips \in DOMAIN fs
    /\ fs[Tips].kind \in {"dir", "denied"}
    /\ RegularFiles = {}

RECURSIVE Sum(_, _)
Sum(f, S) == IF S = {} THEN 0 ELSE LET x == CHOOSE y \in S : TRUE IN f[x] + Sum(f, S \ {x})

\* the steps the walk of p takes: one to list p, one per file name it
\* yields, and the steps of the walks of its subdirectories
RECURSIVE WalkSteps(_)
WalkSteps(p) ==
    IF ~Listable(p) THEN 1
    ELSE 1 + Cardinality(fs[p].files)
           + Sum([n \in fs[p].subs |->
                    IF IsLink(PathJoin(p, n)) THEN 0 ELSE WalkSteps(PathJoin(p, n))],
                 fs[p].subs)

\* the steps of one call: it starts, it walks, it returns
CallSteps(c) == WalkSteps(c.directory) + 2

\* a bound on the steps the process has left
StepsLeft ==
    CASE pc = "exit" -> 0
      [] pc = "module" ->
            1 + Sum([i \in callIdx..Len(program) |-> CallSteps(program[i])], callIdx..Len(program))
      [] pc = "call" ->
            2 + Len(files) + Sum([k \in 1..Len(stack) |-> WalkSteps(stack[k])], 1..Len(stack))
              + Sum([i \in (callIdx + 1)..Len(program) |-> CallSteps(program[i])],
                    (callIdx + 1)..Len(program))

\* C8: when the root exists and holds no regular file anywhere beneath it,
\* every operation writes nothing and terminates with exit code 0: nothing
\* is ever written, the process can always take a step until it has exited,
\* every step lowers the number of steps left, and it exits with code 0.
C8_EmptyRootSucceeds ==
    /\ [](NoRegularFile =>
            /\ stdout = <<>>
            /\ StepsLeft >= 0
            /\ pc /= "exit" => ENABLED Next
            /\ pc = "exit" => exitCode = 0)
    /\ [][NoRegularFile => StepsLeft' < StepsLeft]_vars

C8_Witness ==
    /\ NoRegularFile
    /\ Succeeded
    /\ \E p \in DOMAIN fs : p /= Tips /\ fs[p].kind = "denied"
    /\ \E p \in DOMAIN fs : p /= Tips /\ fs[p].kind = "dir"

---------------------------------------------------------------------------
(* C9 *)

RECURSIVE Flatten(_)
Flatten(q) == IF q = <<>> THEN <<>> ELSE Head(q) \o Flatten(Tail(q))

\* the lines call i wrote, in order
OutOf(i) == LET ev == EventsOf(i) IN Flatten([k \in 1..Len(ev) |-> LinesOf(ev[k])])

\* C9: when the same operation has run twice on the same tree, the two runs
\* wrote the same set of lines whatever their traversal orders, and the same
\* sequence of lines when their traversal orders were the same.
C9_Idempotent ==
    Succeeded =>
        /\ stdout = OutOf(1) \o OutOf(2)
        /\ Range(OutOf(1)) = Range(OutOf(2))
        /\ Yielded(1) = Yielded(2) => OutOf(1) = OutOf(2)

C9_Witness ==
    /\ Succeeded
    /\ program[1].op = "yaml"
    /\ Yielded(1) /= Yielded(2)
    /\ Len(OutOf(1)) = 4
    /\ OutOf(1) /= OutOf(2)

---------------------------------------------------------------------------
(* C10 *)

\* the end of the lines written by the events before event i
EndBefore(i) == IF i = 1 THEN 0 ELSE log[i - 1].first + log[i - 1].count - 1

\* C10: in a run of the script, the YAML pass with tabs = 5 completes before
\* the Markdown pass starts: every YAML line precedes every Markdown line,
\* the fragments are in stdout in the order the entries were yielded, and
\* the two lines of a YAML fragment are adjacent.
C10_ScriptOrder ==
    /\ \A i \in 1..Len(log) : log[i].first = EndBefore(i) + 1
    /\ Len(stdout) = EndBefore(Len(log) + 1)
    /\ \A i, j \in 1..Len(log) : i < j => log[i].call <= log[j].call
    /\ \A i \in 1..Len(log) :
            log[i].count > 0 =>
                IF log[i].call = 1
                THEN /\ log[i].count = 2
                     /\ IndentedBy(stdout[log[i].first], 5, <<"-", " ", "t", "e", "x", "t", ":">>)
                     /\ SpacesThen(stdout[log[i].first + 1], HrefPrefix, Joined(log[i].entry))
                ELSE /\ log[i].count = 1
                     /\ SubSeq(stdout[log[i].first], 1, Len(MdOpen)) = MdOpen
                     /\ EndsWith(stdout[log[i].first], MdMiddle \o Joined(log[i].entry) \o MdClose)
    /\ \A k, l \in 1..Len(stdout) : k < l => ~(stdout[k][1] = "-" /\ stdout[l][1] = " ")
    /\ (\E i \in 1..Len(log) : log[i].call = 2) => Range(Yielded(1)) = ListedFiles

C10_Witness ==
    /\ Succeeded
    /\ Len(stdout) = 6
    /\ Yielded(1) /= Yielded(2)

=============================================================================
